---------------------------- MODULE Spec2Model ----------------------------
(* Time-domain driving functions of sfs (src/sfs/time/drivingfunction.py):  *)
(* the delay-line builder (apply_delays, driving_signals) and the scalar    *)
(* and per-order outputs of the two NFC-HOA designers.                      *)
(*                                                                          *)
(* Every function of the module is pure and keeps no state between calls,  *)
(* so each behaviour is one call: Init draws the function and its           *)
(* arguments, the function's action computes the returned value.            *)
(*                                                                          *)
(* Numbers.  A delay is an integer number of ticks, TicksPerSecond ticks    *)
(* to the second, so that fs * delay is the exact rational                  *)
(* fs * ticks / TicksPerSecond; with the sampling rates of FsValues a tick  *)
(* is a quarter or a half of a sample, which makes exact ties (x.5) and     *)
(* non-tie fractions both occur.  Quotients are kept as num/den records,    *)
(* with the IEEE outcomes inf and nan of a float64 division by zero.        *)
EXTENDS Integers, Sequences, FiniteSets, TLC

VARIABLES op, args, ret, pc

vars == <<op, args, ret, pc>>

-----------------------------------------------------------------------------
(* Bounds of the explored inputs *)

MaxChannels == 2     \* 0..MaxChannels delays, 1..MaxChannels weights
MaxSigLen == 2       \* the signal has 0..MaxSigLen samples
MaxTick == 4         \* a delay is -MaxTick..MaxTick ticks
MaxShift == 2        \* whole-sample shifts -MaxShift..MaxShift
MaxSources == 4      \* len(x0) is 1..MaxSources
MaxCoord == 2        \* coordinates of positions are -MaxCoord..MaxCoord
MaxOrder == 2        \* an explicit max_order is 0..MaxOrder

FsValues == {1000, 2000}
TicksPerSecond == 4 * 1000
CValues == {340, 343}
SampleValues == {1, 2}      \* non-zero, so a copy of the signal shows in a column
WeightValues == {-1, 2}

RECURSIVE SeqsUpTo(_, _)
SeqsUpTo(S, n) ==
    IF n = 0 THEN {<<>>}
    ELSE LET shorter == SeqsUpTo(S, n - 1)
         IN  shorter \cup {Append(s, x) : s \in {t \in shorter : Len(t) = n - 1}, x \in S}

Signals == SeqsUpTo(SampleValues, MaxSigLen)
DelayLists == SeqsUpTo(-MaxTick..MaxTick, MaxChannels)
WeightLists == SeqsUpTo(WeightValues, MaxChannels) \ {<<>>}

-----------------------------------------------------------------------------
(* Floating-point quotients *)

Fin(n, d) == [kind |-> "fin", num |-> n, den |-> d]
Inf == [kind |-> "inf", num |-> 1, den |-> 0]
NaN == [kind |-> "nan", num |-> 0, den |-> 0]

\* numpy float64 true division n / d: a zero divisor gives inf or nan (with a
\* RuntimeWarning), never an exception
FDiv(n, d) ==
    IF d # 0 THEN (IF d > 0 THEN Fin(n, d) ELSE Fin(-n, -d))
    ELSE IF n = 0 THEN NaN
    ELSE IF n > 0 THEN Inf ELSE [kind |-> "inf", num |-> -1, den |-> 0]

RatEq(a, b) == a.kind = "fin" /\ b.kind = "fin" /\ a.num * b.den = b.num * a.den

Error == [status |-> "error"]
Pending == [status |-> "pending"]

-----------------------------------------------------------------------------
(* apply_delays *)

\* Rint with ties rounded up, as floor(x + 0.5) does
Rint_HalfUp(n, d) ==
    LET q == n \div d
        r == n % d
    IN  IF 2 * r < d THEN q ELSE q + 1

\* Rint left out: astype(int) alone truncates toward zero
Rint_Truncate(n, d) ==
    IF n >= 0 THEN n \div d ELSE -((-n) \div d)

\* np.rint of the rational n / d (d > 0): nearest integer, ties to even
Rint(n, d) ==
    LET q == n \div d
        r == n % d
    IN  IF 2 * r < d THEN q
        ELSE IF 2 * r > d THEN q + 1
        ELSE IF q % 2 = 0 THEN q ELSE q + 1

SeqMin(s) == CHOOSE m \in {s[i] : i \in 1..Len(s)} : \A i \in 1..Len(s) : m <= s[i]
SeqMax(s) == CHOOSE m \in {s[i] : i \in 1..Len(s)} : \A i \in 1..Len(s) : m >= s[i]

\* delays_samples = np.rint(fs * delays).astype(int)
DelaysSamples(delays, fs) ==
    [c \in 1..Len(delays) |-> Rint(fs * delays[c], TicksPerSecond)]

\* offset_samples = delays_samples.min()
OffsetSamples(delays_samples) == SeqMin(delays_samples)

\* delays_samples -= offset_samples
NormalizedDelays(delays_samples, offset_samples) ==
    [c \in 1..Len(delays_samples) |-> delays_samples[c] - offset_samples]

\* np.zeros((nrows, ncols)); rows and columns are numbered from 0
Zeros(nrows, ncols) ==
    [ok |-> TRUE, nrows |-> nrows, ncols |-> ncols,
     at |-> [rc \in (0..(nrows - 1)) \X (0..(ncols - 1)) |-> 0]]

\* AllocOut with one row too many
AllocOut_ExtraRow(delays_samples, signal) ==
    Zeros(SeqMax(delays_samples) + Len(signal) + 1, Len(delays_samples))

\* out = np.zeros((delays_samples.max() + len(signal), len(delays_samples)))
AllocOut(delays_samples, signal) ==
    Zeros(SeqMax(delays_samples) + Len(signal), Len(delays_samples))

\* a slice bound of numpy: a negative bound counts from the end, and the
\* result is clipped to 0..n
SliceBound(i, n) ==
    LET j == IF i < 0 THEN i + n ELSE i
    IN  IF j < 0 THEN 0 ELSE IF j > n THEN n ELSE j

\* SliceAssign without the column index: the rows of every column are written
SliceAssign_AllColumns(out, lo, hi, channel, signal) ==
    LET s == SliceBound(lo, out.nrows)
        e == SliceBound(hi, out.nrows)
        k == IF e > s THEN e - s ELSE 0
    IN  IF ~out.ok THEN out
        ELSE IF k = Len(signal)
        THEN [out EXCEPT !.at = [rc \in DOMAIN out.at |->
                 IF rc[1] >= s /\ rc[1] < e
                 THEN signal[rc[1] - s + 1] ELSE out.at[rc]]]
        ELSE [out EXCEPT !.ok = FALSE]

\* out[lo:hi, channel] = signal: the value must have the slice's length, or
\* length 1 (broadcast); anything else raises ValueError
SliceAssign(out, lo, hi, channel, signal) ==
    LET s == SliceBound(lo, out.nrows)
        e == SliceBound(hi, out.nrows)
        k == IF e > s THEN e - s ELSE 0
    IN  IF ~out.ok THEN out
        ELSE IF k = Len(signal)
        THEN [out EXCEPT !.at = [rc \in DOMAIN out.at |->
                 IF rc[2] = channel /\ rc[1] >= s /\ rc[1] < e
                 THEN signal[rc[1] - s + 1] ELSE out.at[rc]]]
        ELSE IF Len(signal) = 1
        THEN [out EXCEPT !.at = [rc \in DOMAIN out.at |->
                 IF rc[2] = channel /\ rc[1] >= s /\ rc[1] < e
                 THEN signal[1] ELSE out.at[rc]]]
        ELSE [out EXCEPT !.ok = FALSE]

\* for channel, cdelay in enumerate(delays_samples):
\*     out[cdelay:cdelay + len(signal), channel] = signal
RECURSIVE CopyLoop(_, _, _, _)
CopyLoop(out, delays_samples, signal, channel) ==
    IF channel >= Len(delays_samples) THEN out
    ELSE LET cdelay == delays_samples[channel + 1]
         IN  CopyLoop(SliceAssign(out, cdelay, cdelay + Len(signal), channel, signal),
                      delays_samples, signal, channel + 1)

\* the min() of an empty array raises ValueError; otherwise the buffer and
\* t_offset = offset_samples / fs
apply_delays(signal, delays, fs) ==
    IF Len(delays) = 0 THEN Error
    ELSE LET rounded == DelaysSamples(delays, fs)
             offset_samples == OffsetSamples(rounded)
             delays_samples == NormalizedDelays(rounded, offset_samples)
             out == CopyLoop(AllocOut(delays_samples, signal), delays_samples, signal, 0)
         IN  IF ~out.ok THEN Error
             ELSE [status |-> "ok",
                   buffer |-> [nrows |-> out.nrows, ncols |-> out.ncols, at |-> out.at],
                   t_offset |-> FDiv(offset_samples, fs)]

-----------------------------------------------------------------------------
(* driving_signals *)

\* Multiply with the first weight applied to every column
Multiply_FirstWeight(d, weights) ==
    IF Len(weights) = 0 THEN [ok |-> FALSE, nrows |-> 0, ncols |-> 0, at |-> <<>>]
    ELSE [ok |-> TRUE, nrows |-> d.nrows, ncols |-> d.ncols,
          at |-> [rc \in DOMAIN d.at |-> d.at[rc] * weights[1]]]

\* d * weights with d of shape (R, C) and weights of shape (W,), by numpy's
\* broadcasting: W = C scales column c by weights[c]; W = 1 scales every
\* column by the one weight; C = 1 gives W columns, each the one column of d
\* scaled by one weight; any other pair of shapes raises ValueError
Multiply(d, weights) ==
    LET w == Len(weights)
    IN  IF w = d.ncols
        THEN [ok |-> TRUE, nrows |-> d.nrows, ncols |-> d.ncols,
              at |-> [rc \in DOMAIN d.at |-> d.at[rc] * weights[rc[2] + 1]]]
        ELSE IF w = 1
        THEN [ok |-> TRUE, nrows |-> d.nrows, ncols |-> d.ncols,
              at |-> [rc \in DOMAIN d.at |-> d.at[rc] * weights[1]]]
        ELSE IF d.ncols = 1
        THEN [ok |-> TRUE, nrows |-> d.nrows, ncols |-> w,
              at |-> [rc \in (0..(d.nrows - 1)) \X (0..(w - 1)) |->
                         d.at[<<rc[1], 0>>] * weights[rc[2] + 1]]]
        ELSE [ok |-> FALSE, nrows |-> 0, ncols |-> 0, at |-> <<>>]

driving_signals(delays, weights, signal, fs) ==
    LET r == apply_delays(signal, delays, fs)
    IN  IF r.status # "ok" THEN Error
        ELSE LET m == Multiply(r.buffer, weights)
             IN  IF ~m.ok THEN Error
                 ELSE [status |-> "ok",
                       buffer |-> [nrows |-> m.nrows, ncols |-> m.ncols, at |-> m.at],
                       t_offset |-> r.t_offset]

-----------------------------------------------------------------------------
(* NFC-HOA designers *)

\* an optional argument: None, or Some(v)
None == {}
Some(v) == {v}
Value(o) == CHOOSE v \in o : TRUE

Dot(u, v) == u[1] * v[1] + u[2] * v[2] + u[3] * v[3]
Neg(v) == <<-v[1], -v[2], -v[3]>>

\* positions: the origin and the points of the x and y axes
Points ==
    {<<x, 0, 0>> : x \in -MaxCoord..MaxCoord} \cup {<<0, y, 0>> : y \in -MaxCoord..MaxCoord}

\* util.cart2sph(x, y, z)[2]: the radius sqrt(x^2 + y^2 + z^2), an integer for
\* the points of Points
Radius(v) == CHOOSE r \in 0..(3 * MaxCoord) : r * r = Dot(v, v)

\* util.cart2sph(x, y, z)[0]: the azimuth arctan2(y, x), in quarter turns
\* (units of pi/2) for the points of Points; arctan2(0, 0) = 0
Azimuth(v) ==
    IF v[2] > 0 THEN 1
    ELSE IF v[2] < 0 THEN -1
    ELSE IF v[1] < 0 THEN 2 ELSE 0

\* _max_order_circular_harmonics testing the truth of max_order instead of
\* "is None": an order of 0 counts as omitted
_max_order_ZeroAsOmitted(N, max_order) ==
    IF max_order = None \/ max_order = Some(0) THEN N \div 2 ELSE Value(max_order)

\* return N // 2 if max_order is None else max_order
_max_order_circular_harmonics(N, max_order) ==
    IF max_order = None THEN N \div 2 ELSE Value(max_order)

\* c / r * T with T = 1 / fs: the factor of the exponent in np.exp(c/r*s*T)
Rate(c, r, fs) ==
    LET q == FDiv(c, r)
    IN  IF q.kind = "fin" THEN Fin(q.num, q.den * fs) ELSE q

\* sig.besselap(m, norm='delay') has m poles; a mapped pole set is the list
\* [np.exp(rate * s) for s in p], kept as the list of its m rates
MappedPoles(m, rate) == [i \in 1..m |-> rate]

\* sig.zpk2sos(z0, zinf, 1, pairing='nearest'): a cascade of
\* max(ceil(m / 2), 1) second-order sections realizing the zeros and poles
Zpk2Sos(z0, zinf) ==
    [sections |-> IF Len(zinf) = 0 THEN 1 ELSE (Len(zinf) + 1) \div 2,
     z |-> z0, p |-> zinf]

Finite(s) == \A i \in 1..Len(s) : s[i].kind = "fin"

\* The returned value when the filter design goes through, and the outcomes
\* of the call: zeros or poles that are not finite (a zero radius, orders
\* m >= 1) reach zpk2sos as NaN, where the conversion may raise or return.
Outcomes(result) ==
    IF \A m \in DOMAIN result.sos : Finite(result.sos[m].z) /\ Finite(result.sos[m].p)
    THEN {result} ELSE {result, Error}

nfchoa_25d_plane(x0, r0, npw, max_order, c, fs) ==
    LET max_order1 == IF max_order = None
                      THEN Some(_max_order_circular_harmonics(Len(x0), max_order))
                      ELSE max_order
        phipw == Azimuth(npw)
        r0_1 == Radius(x0[1])        \* r0 = util.cart2sph(*x0[0])[2]
        M == _max_order_circular_harmonics(Len(x0), max_order1)
    IN  Outcomes([status |-> "ok",
                  delay |-> FDiv(0, c),
                  weight |-> Fin(2 * r0_1, 1),
                  sos |-> [m \in 0..M |->
                              Zpk2Sos(MappedPoles(m, Fin(0, 1)),
                                      MappedPoles(m, Rate(c, r0_1, fs)))],
                  phase |-> phipw - 2])

\* weight = 1/2/np.pi/r is kept in units of 1/pi
nfchoa_25d_point(x0, r0, xs, max_order, c, fs) ==
    LET max_order1 == IF max_order = None
                      THEN Some(_max_order_circular_harmonics(Len(x0), max_order))
                      ELSE max_order
        phi == Azimuth(xs)
        r == Radius(xs)
        r0_1 == Radius(x0[1])        \* r0 = util.cart2sph(*x0[0])[2]
        M == _max_order_circular_harmonics(Len(x0), max_order1)
    IN  Outcomes([status |-> "ok",
                  delay |-> FDiv(r - r0_1, c),
                  weight |-> FDiv(1, 2 * r),
                  sos |-> [m \in 0..M |->
                              Zpk2Sos(MappedPoles(m, Rate(c, r, fs)),
                                      MappedPoles(m, Rate(c, r0_1, fs)))],
                  phase |-> phi])

-----------------------------------------------------------------------------
(* The calls *)

\* a secondary source array of n positions on a circle about the origin
Arrays ==
    {[i \in 1..n |-> IF i % 2 = 1 THEN p ELSE Neg(p)] : n \in 1..MaxSources, p \in Points}

MaxOrders == {None} \cup {Some(m) : m \in 0..MaxOrder}

UnitVectors == {p \in Points : Dot(p, p) = 1}

Init ==
    /\ pc = "call"
    /\ ret = Pending
    /\ \/ /\ op = "apply_delays"
          /\ \E s \in Signals, d \in DelayLists, f \in FsValues :
                args = [signal |-> s, delays |-> d, fs |-> f]
       \/ /\ op = "driving_signals"
          /\ \E s \in Signals, d \in DelayLists, w \in WeightLists, f \in FsValues :
                args = [signal |-> s, delays |-> d, weights |-> w, fs |-> f]
       \/ /\ op = "nfchoa_25d_plane"
          /\ \E a \in Arrays, r \in 1..MaxCoord, n \in UnitVectors,
                m \in MaxOrders, c \in CValues, f \in FsValues :
                args = [x0 |-> a, r0 |-> r, npw |-> n, max_order |-> m, c |-> c, fs |-> f]
       \/ /\ op = "nfchoa_25d_point"
          /\ \E a \in Arrays, r \in 1..MaxCoord, x \in Points,
                m \in MaxOrders, c \in CValues, f \in FsValues :
                args = [x0 |-> a, r0 |-> r, xs |-> x, max_order |-> m, c |-> c, fs |-> f]

ApplyDelays ==
    /\ pc = "call" /\ op = "apply_delays"
    /\ ret' = apply_delays(args.signal, args.delays, args.fs)
    /\ pc' = "done"
    /\ UNCHANGED <<op, args>>

DrivingSignals ==
    /\ pc = "call" /\ op = "driving_signals"
    /\ ret' = driving_signals(args.delays, args.weights, args.signal, args.fs)
    /\ pc' = "done"
    /\ UNCHANGED <<op, args>>

Nfchoa25dPlane ==
    /\ pc = "call" /\ op = "nfchoa_25d_plane"
    /\ ret' \in nfchoa_25d_plane(args.x0, args.r0, args.npw, args.max_order, args.c, args.fs)
    /\ pc' = "done"
    /\ UNCHANGED <<op, args>>

Nfchoa25dPoint ==
    /\ pc = "call" /\ op = "nfchoa_25d_point"
    /\ ret' \in nfchoa_25d_point(args.x0, args.r0, args.xs, args.max_order, args.c, args.fs)
    /\ pc' = "done"
    /\ UNCHANGED <<op, args>>

Next == ApplyDelays \/ DrivingSignals \/ Nfchoa25dPlane \/ Nfchoa25dPoint

Spec == Init /\ [][Next]_vars

-----------------------------------------------------------------------------
(* Reference notions of the properties, stated without the operators above *)

Abs(x) == IF x < 0 THEN -x ELSE x

Returned(o) == pc = "done" /\ op = o

SampleRange == -(MaxTick + MaxShift + 1)..(MaxTick + MaxShift + 1)

\* the integer nearest to fs * ticks / TicksPerSecond, the even one of the two
\* when the value lies halfway between them
Nearest(ticks, fs) ==
    CHOOSE s \in SampleRange :
        /\ 2 * Abs(s * TicksPerSecond - fs * ticks) <= TicksPerSecond
        /\ 2 * Abs(s * TicksPerSecond - fs * ticks) = TicksPerSecond => s % 2 = 0

MinNearest(delays, fs) ==
    CHOOSE m \in {Nearest(delays[c], fs) : c \in 1..Len(delays)} :
        \A c \in 1..Len(delays) : m <= Nearest(delays[c], fs)

\* d_c: the normalized delay of channel c (numbered from 1), in samples
Normalized(delays, fs, c) == Nearest(delays[c], fs) - MinNearest(delays, fs)

\* the first row of a column that is not zero
StartRow(buffer, col) ==
    CHOOSE r \in 0..(buffer.nrows - 1) :
        /\ buffer.at[<<r, col>>] # 0
        /\ \A q \in 0..(r - 1) : buffer.at[<<q, col>>] = 0

\* fs * delay lies exactly halfway between two samples
Halfway(ticks, fs) ==
    /\ (2 * fs * ticks) % TicksPerSecond = 0
    /\ (fs * ticks) % TicksPerSecond # 0

\* every delay moved by k whole samples
Shifted(delays, fs, k) ==
    [c \in 1..Len(delays) |-> delays[c] + k * (TicksPerSecond \div fs)]

-----------------------------------------------------------------------------
(* The delay-line builder *)

\* C1: for a non-empty signal and a non-empty list of delays, apply_delays
\* returns a buffer in which column c holds the signal, sample for sample, in
\* rows [d_c, d_c + N_s) and 0 in every other row; the copy lies inside the
\* buffer.
ThmC1_SignalCopiedAtDelay ==
    (Returned("apply_delays") /\ Len(args.signal) > 0 /\ Len(args.delays) > 0) =>
        /\ ret.status = "ok"
        /\ \A c \in 1..Len(args.delays) :
            LET d == Normalized(args.delays, args.fs, c)
            IN  /\ d >= 0
                /\ d + Len(args.signal) <= ret.buffer.nrows
                /\ \A r \in 0..(ret.buffer.nrows - 1) :
                      ret.buffer.at[<<r, c - 1>>] =
                          IF r >= d /\ r < d + Len(args.signal)
                          THEN args.signal[r - d + 1] ELSE 0

WitC1_TwoChannelsApart ==
    /\ Returned("apply_delays") /\ ret.status = "ok"
    /\ Len(args.signal) = 2 /\ args.signal[1] # args.signal[2]
    /\ Len(args.delays) = 2
    /\ Normalized(args.delays, args.fs, 1) = 2
    /\ Normalized(args.delays, args.fs, 2) = 0
    /\ ret.buffer.at[<<2, 0>>] = args.signal[1]
    /\ ret.buffer.at[<<1, 1>>] = args.signal[2]

ThmC3_NegativeDelays ==
    (Returned("apply_delays") /\ Len(args.delays) > 0) =>
        /\ ret.status = "ok"
        /\ RatEq(ret.t_offset, Fin(MinNearest(args.delays, args.fs), args.fs))
        /\ (ret.t_offset.num < 0) <=> (MinNearest(args.delays, args.fs) < 0)
        /\ Len(args.signal) > 0 =>
              \A c \in 1..Len(args.delays) :
                  LET start == StartRow(ret.buffer, c - 1)
                      s == Nearest(args.delays[c], args.fs)
                  IN  /\ start = s - MinNearest(args.delays, args.fs)
                      /\ RatEq(Fin(start * ret.t_offset.den + ret.t_offset.num * args.fs,
                                   args.fs * ret.t_offset.den),
                               Fin(s, args.fs))
        /\ (args.delays = <<0, -4>> /\ args.fs = 1000 /\ Len(args.signal) > 0) =>
              /\ StartRow(ret.buffer, 0) = 1
              /\ StartRow(ret.buffer, 1) = 0
              /\ RatEq(ret.t_offset, Fin(-1, 1000))

WitC3_EarlierSecondChannel ==
    /\ Returned("apply_delays") /\ ret.status = "ok"
    /\ args.delays = <<0, -4>> /\ args.fs = 1000 /\ Len(args.signal) = 2
    /\ ret.t_offset.num < 0
    /\ ret.buffer.at[<<0, 1>>] = args.signal[1]
    /\ ret.buffer.at[<<1, 0>>] = args.signal[1]

\* C4: with as many weights as delays, driving_signals returns the buffer of
\* apply_delays with every entry of column c multiplied by weights[c], and
\* the t_offset of apply_delays.
ThmC4_WeightedColumns ==
    (Returned("driving_signals") /\ Len(args.delays) = Len(args.weights)) =>
        LET a == apply_delays(args.signal, args.delays, args.fs)
        IN  /\ ret.status = a.status
            /\ a.status = "ok" =>
                /\ ret.buffer.nrows = a.buffer.nrows
                /\ ret.buffer.ncols = a.buffer.ncols
                /\ DOMAIN ret.buffer.at = DOMAIN a.buffer.at
                /\ \A rc \in DOMAIN a.buffer.at :
                      ret.buffer.at[rc] = args.weights[rc[2] + 1] * a.buffer.at[rc]
                /\ ret.t_offset = a.t_offset

WitC4_TwoWeights ==
    /\ Returned("driving_signals") /\ ret.status = "ok"
    /\ Len(args.delays) = 2 /\ Len(args.weights) = 2
    /\ args.weights[1] # args.weights[2]
    /\ Len(args.signal) = 2
    /\ args.delays[1] # args.delays[2]
    /\ \E r \in 0..(ret.buffer.nrows - 1) :
          /\ ret.buffer.at[<<r, 0>>] = args.weights[1] * args.signal[1]
          /\ ret.buffer.at[<<r, 1>>] = args.weights[2] * args.signal[1]

\* C5: driving_signals with delays and weights of different lengths ends in
\* an error.
CexC5_MismatchedLengthsFail ==
    (Returned("driving_signals") /\ Len(args.delays) # Len(args.weights)) =>
        ret.status = "error"

\* C6: apply_delays and driving_signals with an empty signal end in an error.
CexC6_EmptySignalFails ==
    (pc = "done" /\ op \in {"apply_delays", "driving_signals"} /\ Len(args.signal) = 0) =>
        ret.status = "error"

\* C10 as stated: moving every delay by the same k whole samples returns the
\* same buffer and moves t_offset by k / fs, ties included.
ShiftInvariantFor(k) ==
    LET b == apply_delays(args.signal, Shifted(args.delays, args.fs, k), args.fs)
    IN  /\ b.status = "ok"
        /\ b.buffer = ret.buffer
        /\ RatEq(b.t_offset, Fin(ret.t_offset.num + k, args.fs))

CexC10_ShiftInvariantWithTies ==
    (Returned("apply_delays") /\ ret.status = "ok") =>
        \A k \in -MaxShift..MaxShift : ShiftInvariantFor(k)

\* C10 as amended: the same, for an even shift k or when no fs * delay lies
\* exactly halfway between two samples.
ThmC10_ShiftInvariantOffTies ==
    (Returned("apply_delays") /\ ret.status = "ok") =>
        \A k \in -MaxShift..MaxShift :
            (k % 2 = 0 \/ \A c \in 1..Len(args.delays) : ~Halfway(args.delays[c], args.fs))
                => ShiftInvariantFor(k)

WitC10_FractionalDelaysShifted ==
    /\ Returned("apply_delays") /\ ret.status = "ok"
    /\ args.delays = <<1, -3>> /\ args.fs = 1000 /\ Len(args.signal) = 2
    /\ ret.buffer.nrows = 3
    /\ ShiftInvariantFor(1)

-----------------------------------------------------------------------------
(* The NFC-HOA designers *)

Designers == {"nfchoa_25d_plane", "nfchoa_25d_point"}

\* C7: nfchoa_25d_point with xs at the origin (r = 0) ends in an error.
CexC7_SourceAtOriginFails ==
    (Returned("nfchoa_25d_point") /\ args.xs = <<0, 0, 0>>) => ret.status = "error"

\* C8: with N = len(x0), the maximum order M is max_order when it is given
\* (0 included) and floor(N / 2) when it is omitted; the returned filter bank
\* has exactly the keys 0..M.
ThmC8_OneCascadePerOrder ==
    (pc = "done" /\ op \in Designers /\ ret.status = "ok") =>
        \E M \in 0..(MaxOrder + MaxSources + 2) :
            /\ \/ args.max_order = {M}
               \/ args.max_order = {} /\ 2 * M <= Len(args.x0) /\ Len(args.x0) < 2 * M + 2
            /\ DOMAIN ret.sos = 0..M
            /\ Cardinality(DOMAIN ret.sos) = M + 1

WitC8_OrderZeroGiven ==
    /\ pc = "done" /\ op \in Designers /\ ret.status = "ok"
    /\ args.max_order = {0} /\ Len(args.x0) >= 2
    /\ DOMAIN ret.sos = {0}

\* C9: the scalar outputs come from the radius r0 passed by the caller:
\* nfchoa_25d_point returns delay = (r - r0) / c and weight = 1 / (2 pi r),
\* nfchoa_25d_plane returns delay = 0 and weight = 2 r0.
CexC9_ScalarsFromGivenRadius ==
    (pc = "done" /\ op \in Designers /\ ret.status = "ok"
        /\ args.x0[1] # <<0, 0, 0>>
        /\ (op = "nfchoa_25d_point" => args.xs # <<0, 0, 0>>)) =>
        IF op = "nfchoa_25d_point"
        THEN \E r \in 1..(3 * MaxCoord) :
                /\ r * r = Dot(args.xs, args.xs)
                /\ RatEq(ret.delay, Fin(r - args.r0, args.c))
                /\ RatEq(ret.weight, Fin(1, 2 * r))
        ELSE /\ RatEq(ret.delay, Fin(0, 1))
             /\ RatEq(ret.weight, Fin(2 * args.r0, 1))

=============================================================================
